---- MODULE Spec2Model ----
(***************************************************************************)
(* tcping: the Pinger of src/ping/ping.go (Stop, Done, Ping, logStats,     *)
(* Summarize) run by the command of src/unnamed/part_000 (rootCmd.Run):    *)
(* one goroutine runs the tick loop, one watcher goroutine cancels the     *)
(* probe context when Done() closes, and the main goroutine waits for a    *)
(* signal or Done(), calls Stop() and then Summarize().                    *)
(*                                                                         *)
(* Process teardown (main returning, or a panic killing the process) is    *)
(* not modelled: each goroutine is followed to its own end.                *)
(***************************************************************************)
EXTENDS Integers, Sequences, FiniteSets, TLC

\* ---- bounds -------------------------------------------------------------
\* largest configured counter; counter ranges over -1..MaxCounter
MaxCounter == 2
\* probes issued in unbounded mode (counter <= 0) before time stops passing
MaxProbes == 2
\* probe durations range over -1..MaxDur
MaxDur == 1

\* ---- program constants --------------------------------------------------
\* math.MaxInt64, held as the largest integer TLC represents: what the code
\* uses of it is that it is above every duration a probe reports
MaxInt64 == 2147483647

\* Pinger.counter: negative and zero mean no bound
CounterValues == -1..MaxCounter
\* Stats.Duration: the elapsed time a probe reports, a signed integer that
\* the Pinger takes as it comes
DurValues == -1..MaxDur

VARIABLES
    counter,        \* Pinger.counter
    stopC,          \* Pinger.stopC: "open" | "closed"
    stopOnce,       \* Pinger.stopOnce: "new" | "running" | "done"
    ctxDone,        \* ctx of Ping(): TRUE once cancel() has been called
    timerArmed,     \* timer of Ping(): TRUE while the timer is running
    timerC,         \* timer.C: number of ticks buffered (capacity 1)
    pingPc,         \* position of the goroutine running Ping()
    stats,          \* the *Stats returned by the probe of this tick
    minDuration, maxDuration, totalDuration, total, failedTotal,
    out,            \* number of status lines written to Pinger.out
    watcherPc,      \* position of the goroutine of ping.go:173-176
    driverPc,       \* position of rootCmd.Run
    sigs,           \* number of signals buffered in sigs (capacity 1)
    summary,        \* the values Summarize printed, <<>> before it has
    panicked,       \* "none" or the runtime panic raised
    closes,         \* history: number of close(p.stopC) executed
    interrupted,    \* history: the driver left its select by <-sigs
    invoked,        \* history: number of probe invocations started
    inflight,       \* history: probe invocations started and not returned
    folded,         \* history: the Stats passed to logStats, in order
    pinger,         \* the registry of ping.go:21, protocol -> factory
    regLog,         \* history: the Register calls made, in order
    loaded,         \* history: the last Load call and what it returned
    fmtIn,          \* the error handed to formatError
    fmtOut,         \* the category formatError returned, "none" before
    cfg,            \* the command line rootCmd.Run was given
    url,            \* the url of rootCmd.Run once its port is settled
    protocol,       \* the protocol of rootCmd.Run (part_000:99)
    cfgErr          \* "none" or why rootCmd.Run returned before probing

pingerVars == <<counter, stopC, stopOnce, ctxDone, timerArmed, timerC, pingPc,
                stats, watcherPc>>
accVars == <<minDuration, maxDuration, totalDuration, total, failedTotal>>
driverVars == <<driverPc, sigs, summary, panicked>>
histVars == <<closes, interrupted, invoked, inflight, folded>>
runVars == <<pingerVars, accVars, out, driverVars, histVars>>
regVars == <<pinger, regLog, loaded>>
fmtVars == <<fmtIn, fmtOut>>
cfgVars == <<cfg, url, protocol, cfgErr>>
auxVars == <<regVars, fmtVars, cfgVars>>
vars == <<runVars, auxVars>>

\* ---- Stats --------------------------------------------------------------
\* Stats.Error: nil, an error that is not a cancellation, context.Canceled
NilError == "nil"
Canceled == "canceled"
OtherError == "error"

NoStats == [id |-> 0, Error |-> NilError, Duration |-> 0]

\* errors.Is(err, context.Canceled)
IsCanceled(err) == err = Canceled

\* the errors a probe can return: context.Canceled only from a cancelled ctx
ProbeErrors(done) == IF done THEN {NilError, OtherError, Canceled}
                     ELSE {NilError, OtherError}

\* ---- the registry (ping.go:21-31, 48-55) ---------------------------------
\* Protocol: the iota constants of ping.go:48-55
TCP == 0
HTTP == 1
HTTPS == 2
Protocols == {TCP, HTTP, HTTPS}

\* the factories init() registers (part_000:162-182), and the nil Factory
\* that indexing the map gives for a missing key
Factories == {"tcpFactory", "httpFactory", "httpsFactory"}
NilFactory == "nil"

\* var pinger = map[Protocol]Factory{}
EmptyRegistry == [p \in {} |-> NilFactory]

\* Register: pinger[protocol] = factory
Register_KeepFirst(reg, p, f) ==
    [q \in DOMAIN reg \cup {p} |-> IF q \in DOMAIN reg THEN reg[q] ELSE f]
Register(reg, p, f) ==
    [q \in DOMAIN reg \cup {p} |-> IF q = p THEN f ELSE reg[q]]

\* Load: return pinger[protocol]
Load(reg, p) == IF p \in DOMAIN reg THEN reg[p] ELSE NilFactory

\* an init() that registers no factory for HTTPS
InitRegistry_NoHTTPS ==
    Register(Register(EmptyRegistry, HTTP, "httpFactory"), TCP, "tcpFactory")

\* the registry once init() has run (part_000:162-182)
InitRegistry ==
    Register(Register(Register(EmptyRegistry, HTTP, "httpFactory"),
                      HTTPS, "httpsFactory"), TCP, "tcpFactory")

NoLoad == [protocol |-> -1, factory |-> NilFactory, at |-> 0]
NoError == <<>>
NoCfg == [given |-> FALSE]
NoURL == [Scheme |-> "", Port |-> ""]

\* ---- Init: the state NewPinger returns, before rootCmd.Run starts it -----
\* the fields of a Pinger fresh from NewPinger and the goroutines not started
FreshPinger ==
    /\ stopC = "open"
    /\ stopOnce = "new"
    /\ ctxDone = FALSE
    /\ timerArmed = FALSE
    /\ timerC = 0
    /\ pingPc = "idle"
    /\ stats = NoStats
    /\ minDuration = 0
    /\ maxDuration = 0
    /\ totalDuration = 0
    /\ total = 0
    /\ failedTotal = 0
    /\ out = 0
    /\ watcherPc = "none"
    /\ sigs = 0
    /\ summary = <<>>
    /\ panicked = "none"
    /\ closes = 0
    /\ interrupted = FALSE
    /\ invoked = 0
    /\ inflight = {}
    /\ folded = <<>>

\* a process in which init() has run and nothing else
AfterInit ==
    /\ pinger = InitRegistry
    /\ regLog = <<>>
    /\ loaded = NoLoad
    /\ fmtIn = NoError
    /\ fmtOut = "none"

\* rootCmd.Run has come to part_000:132 with a valid command line
Init ==
    /\ counter \in CounterValues
    /\ driverPc = "new"
    /\ FreshPinger
    /\ AfterInit
    /\ cfg = NoCfg
    /\ url = NoURL
    /\ protocol = TCP
    /\ cfgErr = "none"

\* ---- Pinger.Stop (ping.go:157-161) --------------------------------------
\* sync.Once.Do runs its function only for the first caller
OnceFirst_NoOnce(once) == TRUE
OnceFirst(once) == once = "new"

\* close(p.stopC): closing a closed channel panics
CloseStopC ==
    /\ stopC' = "closed"
    /\ closes' = closes + 1
    /\ panicked' = IF stopC = "closed" THEN "close of closed channel"
                   ELSE panicked

\* Stop() called by the driver: stopOnce.Do entered. A caller that finds the
\* Once running waits on its mutex; one that finds it done returns at once.
DriverStopEnter ==
    /\ driverPc = "stop"
    /\ stopOnce # "running" \/ OnceFirst(stopOnce)
    /\ IF OnceFirst(stopOnce)
       THEN stopOnce' = "running" /\ driverPc' = "close"
       ELSE stopOnce' = stopOnce /\ driverPc' = "summarize"
    /\ UNCHANGED <<counter, stopC, ctxDone, timerArmed, timerC, pingPc, stats,
                   watcherPc, accVars, out, sigs, summary, panicked, histVars>>
    /\ UNCHANGED auxVars

\* Stop() called by the driver: the function of stopOnce.Do
DriverStopClose ==
    /\ driverPc = "close"
    /\ CloseStopC
    /\ stopOnce' = "done"
    /\ driverPc' = "summarize"
    /\ UNCHANGED <<counter, ctxDone, timerArmed, timerC, pingPc, stats,
                   watcherPc, accVars, out, sigs, summary, interrupted,
                   invoked, inflight, folded>>
    /\ UNCHANGED auxVars

\* a Ping() whose deferred Stop() returns without running the Once
PingStopEnter_NoClose ==
    /\ pingPc = "stop"
    /\ pingPc' = "returned"
    /\ UNCHANGED <<counter, stopC, stopOnce, ctxDone, timerArmed, timerC, stats,
                   watcherPc, accVars, out, driverVars, histVars>>
    /\ UNCHANGED auxVars

\* the deferred p.Stop() of Ping() (ping.go:168)
PingStopEnter ==
    /\ pingPc = "stop"
    /\ stopOnce # "running" \/ OnceFirst(stopOnce)
    /\ IF OnceFirst(stopOnce)
       THEN stopOnce' = "running" /\ pingPc' = "close"
       ELSE stopOnce' = stopOnce /\ pingPc' = "returned"
    /\ UNCHANGED <<counter, stopC, ctxDone, timerArmed, timerC, stats,
                   watcherPc, accVars, out, driverVars, histVars>>
    /\ UNCHANGED auxVars

PingStopClose ==
    /\ pingPc = "close"
    /\ CloseStopC
    /\ stopOnce' = "done"
    /\ pingPc' = "returned"
    /\ UNCHANGED <<counter, ctxDone, timerArmed, timerC, stats, watcherPc,
                   accVars, out, driverPc, sigs, summary, interrupted,
                   invoked, inflight, folded>>
    /\ UNCHANGED auxVars

\* ---- Pinger.Ping (ping.go:167-200) --------------------------------------
\* ping.go:168-186: the defers are registered, ctx is made, the watcher
\* goroutine is started, the timer is armed to fire after 1ns, stop = false
\* and minDuration = math.MaxInt64
PingEntry_NoMinInit ==
    /\ pingPc = "entry"
    /\ watcherPc' = "wait"
    /\ timerArmed' = TRUE
    /\ pingPc' = "select"
    /\ UNCHANGED <<counter, stopC, stopOnce, ctxDone, timerC, stats, accVars,
                   out, driverVars, histVars>>
    /\ UNCHANGED auxVars

PingEntry ==
    /\ pingPc = "entry"
    /\ watcherPc' = "wait"
    /\ timerArmed' = TRUE
    /\ minDuration' = MaxInt64
    /\ pingPc' = "select"
    /\ UNCHANGED <<counter, stopC, stopOnce, ctxDone, timerC, stats,
                   maxDuration, totalDuration, total, failedTotal, out,
                   driverVars, histVars>>
    /\ UNCHANGED auxVars

\* ping.go:173-176: go func() { <-p.Done(); cancel() }()
WatcherCancel_NoWait ==
    /\ watcherPc = "wait"
    /\ ctxDone' = TRUE
    /\ watcherPc' = "done"
    /\ UNCHANGED <<counter, stopC, stopOnce, timerArmed, timerC, pingPc, stats,
                   accVars, out, driverVars, histVars>>
    /\ UNCHANGED auxVars

WatcherCancel ==
    /\ watcherPc = "wait"
    /\ stopC = "closed"
    /\ ctxDone' = TRUE
    /\ watcherPc' = "done"
    /\ UNCHANGED <<counter, stopC, stopOnce, timerArmed, timerC, pingPc, stats,
                   accVars, out, driverVars, histVars>>
    /\ UNCHANGED auxVars

\* the runtime fires the one-shot timer: a tick is sent on timer.C and the
\* timer is no longer running. In unbounded mode time stops after MaxProbes.
TimerFire_Ticker ==
    /\ timerArmed
    /\ counter > 0 \/ invoked < MaxProbes
    /\ timerC' = 1
    /\ timerArmed' = TRUE
    /\ UNCHANGED <<counter, stopC, stopOnce, ctxDone, pingPc, stats, watcherPc,
                   accVars, out, driverVars, histVars>>
    /\ UNCHANGED auxVars

TimerFire ==
    /\ timerArmed
    /\ counter > 0 \/ invoked < MaxProbes
    /\ timerC' = 1
    /\ timerArmed' = FALSE
    /\ UNCHANGED <<counter, stopC, stopOnce, ctxDone, pingPc, stats, watcherPc,
                   accVars, out, driverVars, histVars>>
    /\ UNCHANGED auxVars

\* ping.go:189-190: case <-timer.C, p.ping.Ping(ctx) is called
SelectTimer ==
    /\ pingPc = "select"
    /\ timerC = 1
    /\ timerC' = 0
    /\ invoked' = invoked + 1
    /\ inflight' = inflight \cup {invoked + 1}
    /\ pingPc' = "probe"
    /\ UNCHANGED <<counter, stopC, stopOnce, ctxDone, timerArmed, stats,
                   watcherPc, accVars, out, driverVars, closes, interrupted,
                   folded>>
    /\ UNCHANGED auxVars

\* ping.go:190: the probe returns its Stats
ProbeReturn ==
    /\ pingPc = "probe"
    /\ \E d \in DurValues, e \in ProbeErrors(ctxDone) :
          stats' = [id |-> invoked, Error |-> e, Duration |-> d]
    /\ inflight' = inflight \ {invoked}
    /\ pingPc' = "log"
    /\ UNCHANGED <<counter, stopC, stopOnce, ctxDone, timerArmed, timerC,
                   watcherPc, accVars, out, driverVars, closes, interrupted,
                   invoked, folded>>
    /\ UNCHANGED auxVars

\* ---- Pinger.logStats (ping.go:316-350) ----------------------------------
\* ping.go:324-326: failedTotal after folding a Stats with this Error
FoldFailed(failed, err) == IF err # NilError THEN failed + 1 ELSE failed

\* ping.go:326-346: the status lines written for a Stats with this Error
LinesPrinted_SilentErrors(err) == IF err # NilError THEN 0 ELSE 1
LinesPrinted(err) == IF err # NilError /\ IsCanceled(err) THEN 0 ELSE 1

LogStats_NoMax ==
    /\ pingPc = "log"
    /\ minDuration' = IF stats.Duration < minDuration THEN stats.Duration
                      ELSE minDuration
    /\ totalDuration' = totalDuration + stats.Duration
    /\ failedTotal' = FoldFailed(failedTotal, stats.Error)
    /\ out' = out + LinesPrinted(stats.Error)
    /\ folded' = Append(folded, stats)
    /\ pingPc' = "inc"
    /\ UNCHANGED <<counter, stopC, stopOnce, ctxDone, timerArmed, timerC, stats,
                   watcherPc, maxDuration, total, driverVars, closes,
                   interrupted, invoked, inflight>>
    /\ UNCHANGED auxVars

LogStats ==
    /\ pingPc = "log"
    /\ minDuration' = IF stats.Duration < minDuration THEN stats.Duration
                      ELSE minDuration
    /\ maxDuration' = IF stats.Duration > maxDuration THEN stats.Duration
                      ELSE maxDuration
    /\ totalDuration' = totalDuration + stats.Duration
    /\ failedTotal' = FoldFailed(failedTotal, stats.Error)
    /\ out' = out + LinesPrinted(stats.Error)
    /\ folded' = Append(folded, stats)
    /\ pingPc' = "inc"
    /\ UNCHANGED <<counter, stopC, stopOnce, ctxDone, timerArmed, timerC, stats,
                   watcherPc, total, driverVars, closes, interrupted,
                   invoked, inflight>>
    /\ UNCHANGED auxVars

\* ---- Pinger.Ping, the rest of the timer case (ping.go:192-195) ----------
\* ping.go:192: the loop stops once the incremented total reaches counter
CounterReached_OffByOne(t, c) == c > 0 /\ t > c
CounterReached_NoPositive(t, c) == t > c - 1
CounterReached(t, c) == c > 0 /\ t > c - 1

\* p.total++, the stop decision and timer.Reset(interval); the loop condition
\* !stop is evaluated next and leaves the loop when stop is set
IncTotal_SkipCanceled ==
    /\ pingPc = "inc"
    /\ total' = IF IsCanceled(stats.Error) THEN total ELSE total + 1
    /\ timerArmed' = TRUE
    /\ pingPc' = IF CounterReached(total', counter) THEN "exit" ELSE "select"
    /\ UNCHANGED <<counter, stopC, stopOnce, ctxDone, timerC, stats, watcherPc,
                   minDuration, maxDuration, totalDuration, failedTotal, out,
                   driverVars, histVars>>
    /\ UNCHANGED auxVars

IncTotal_StopOnError ==
    /\ pingPc = "inc"
    /\ total' = total + 1
    /\ timerArmed' = TRUE
    /\ pingPc' = IF CounterReached(total', counter) \/ stats.Error # NilError
                 THEN "exit" ELSE "select"
    /\ UNCHANGED <<counter, stopC, stopOnce, ctxDone, timerC, stats, watcherPc,
                   minDuration, maxDuration, totalDuration, failedTotal, out,
                   driverVars, histVars>>
    /\ UNCHANGED auxVars

IncTotal ==
    /\ pingPc = "inc"
    /\ total' = total + 1
    /\ timerArmed' = TRUE
    /\ pingPc' = IF CounterReached(total', counter) THEN "exit" ELSE "select"
    /\ UNCHANGED <<counter, stopC, stopOnce, ctxDone, timerC, stats, watcherPc,
                   minDuration, maxDuration, totalDuration, failedTotal, out,
                   driverVars, histVars>>
    /\ UNCHANGED auxVars

\* ping.go:196-197: case <-p.Done(): stop = true
SelectDone ==
    /\ pingPc = "select"
    /\ stopC = "closed"
    /\ pingPc' = "exit"
    /\ UNCHANGED <<counter, stopC, stopOnce, ctxDone, timerArmed, timerC, stats,
                   watcherPc, accVars, out, driverVars, histVars>>
    /\ UNCHANGED auxVars

\* the loop is left: the deferred timer.Stop() and cancel() run (ping.go:183,
\* 171), the deferred p.Stop() is next
PingExit ==
    /\ pingPc = "exit"
    /\ timerArmed' = FALSE
    /\ ctxDone' = TRUE
    /\ pingPc' = "stop"
    /\ UNCHANGED <<counter, stopC, stopOnce, timerC, stats, watcherPc, accVars,
                   out, driverVars, histVars>>
    /\ UNCHANGED auxVars

\* ---- rootCmd.Run (part_000:132-141) -------------------------------------
\* part_000:133-135: sigs is made and notified, go pinger.Ping()
DriverGo ==
    /\ driverPc = "new"
    /\ pingPc = "idle"
    /\ pingPc' = "entry"
    /\ driverPc' = "wait"
    /\ UNCHANGED <<counter, stopC, stopOnce, ctxDone, timerArmed, timerC, stats,
                   watcherPc, accVars, out, sigs, summary, panicked, histVars>>
    /\ UNCHANGED auxVars

\* the operator sends SIGINT or SIGTERM while the driver waits; a signal
\* that arrives later is never received
Interrupt ==
    /\ driverPc = "wait"
    /\ sigs = 0
    /\ sigs' = 1
    /\ UNCHANGED <<pingerVars, accVars, out, driverPc, summary, panicked,
                   histVars>>
    /\ UNCHANGED auxVars

\* part_000:137: case <-sigs
DriverSelectSigs ==
    /\ driverPc = "wait"
    /\ sigs = 1
    /\ sigs' = 0
    /\ interrupted' = TRUE
    /\ driverPc' = "stop"
    /\ UNCHANGED <<pingerVars, accVars, out, summary, panicked, closes,
                   invoked, inflight, folded>>
    /\ UNCHANGED auxVars

\* part_000:138: case <-pinger.Done()
DriverSelectDone ==
    /\ driverPc = "wait"
    /\ stopC = "closed"
    /\ driverPc' = "stop"
    /\ UNCHANGED <<pingerVars, accVars, out, sigs, summary, panicked,
                   histVars>>
    /\ UNCHANGED auxVars

\* ---- Pinger.Summarize (ping.go:202-212) ---------------------------------
\* ping.go:211: the last argument of the Fprintf is an integer division by
\* p.total, which panics when p.total is zero
SummarizeFaults == total = 0

\* Go's integer division truncates towards zero (b > 0 here)
GoDiv(a, b) == IF a >= 0 THEN a \div b ELSE -((-a) \div b)

\* ping.go:211: the values the Fprintf prints after the URL
SummarizeArgs ==
    <<total, total - failedTotal, failedTotal, minDuration, maxDuration,
      GoDiv(totalDuration, total)>>

\* Summarize reads the Pinger without synchronisation, wherever the goroutine
\* of Ping() is, and prints the summary or panics
Summarize ==
    /\ driverPc = "summarize"
    /\ IF SummarizeFaults
       THEN /\ panicked' = "integer divide by zero"
            /\ driverPc' = "panic"
            /\ summary' = summary
       ELSE /\ summary' = SummarizeArgs
            /\ driverPc' = "done"
            /\ panicked' = panicked
    /\ UNCHANGED <<pingerVars, accVars, out, sigs, histVars>>
    /\ UNCHANGED auxVars

\* ---- specification ------------------------------------------------------
PingStep ==
    \/ PingEntry
    \/ TimerFire
    \/ SelectTimer
    \/ ProbeReturn
    \/ LogStats
    \/ IncTotal
    \/ PingExit
    \/ PingStopEnter
    \/ PingStopClose
    \/ WatcherCancel

DriverStep ==
    \/ DriverGo
    \/ DriverSelectSigs
    \/ DriverSelectDone
    \/ DriverStopEnter
    \/ DriverStopClose
    \/ Summarize

Next ==
    \/ PingStep
    \/ SelectDone
    \/ DriverStep
    \/ Interrupt

Spec == Init /\ [][Next]_vars

\* Every goroutine that can run does run, timers fire, and a select with
\* several ready cases picks each of them sooner or later. The operator's
\* signal is not forced.
FairSpec ==
    /\ Spec
    /\ WF_vars(PingStep)
    /\ SF_vars(SelectDone)
    /\ WF_vars(WatcherCancel)
    /\ WF_vars(DriverStep)

\* ---- properties ---------------------------------------------------------
\* the positions of Ping() after its loop has been left
LoopLeft == {"exit", "stop", "close", "returned"}

\* the durations folded so far, and their minimum, maximum and sum
FoldedDurations == {folded[i].Duration : i \in 1..Len(folded)}
MinOf(S) == CHOOSE m \in S : \A x \in S : m <= x
MaxOf(S) == CHOOSE m \in S : \A x \in S : m >= x
RECURSIVE SumDurations(_)
SumDurations(q) == IF q = <<>> THEN 0
                   ELSE q[1].Duration + SumDurations(Tail(q))
AllSuccessful == \A i \in 1..Len(folded) : folded[i].Error = NilError
NoneNegative == \A i \in 1..Len(folded) : folded[i].Duration >= 0

\* C1: with counter = N > 0 no run invokes more than N probes; a run the
\* driver did not stop by a signal leaves the loop after exactly N probes and
\* N folded Stats; Ping() returns with Done() closed, and it does return.
C1_BoundedRun ==
    /\ [](counter > 0 => invoked <= counter)
    /\ [](counter > 0 /\ pingPc \in LoopLeft /\ ~interrupted
            => invoked = counter /\ Len(folded) = counter /\ inflight = {})
    /\ [](pingPc = "returned" => stopC = "closed")
    /\ (counter > 0 => <>(pingPc = "returned"))

C1_Witness ==
    /\ counter > 1
    /\ ~interrupted
    /\ pingPc = "returned"
    /\ invoked = counter
    /\ Len(folded) = counter
    /\ stopC = "closed"

\* C2: folding a Stats increments the failure count exactly when its Error is
\* non-nil and not a cancellation; a cancellation leaves it unchanged.
C2_FailedIffNonCancelError ==
    [][pingPc = "log" /\ pingPc' = "inc"
         => /\ failedTotal' \in {failedTotal, failedTotal + 1}
            /\ (failedTotal' = failedTotal + 1)
                 <=> (stats.Error # NilError /\ ~IsCanceled(stats.Error))]_vars

\* C3: Summarize called with total = 0 completes without a division fault.
C3_SummarizeZeroNoFault ==
    ~(driverPc = "panic" /\ panicked = "integer divide by zero")

\* C4: 0 <= failedTotal <= total in every state, the one between logStats
\* and p.total++ included.
C4_FailedWithinTotal ==
    0 <= failedTotal /\ failedTotal <= total

\* C5: Summarize reads the accumulator only after the loop has been left, no
\* probe being in flight.
C5_SummarizeAfterStopped ==
    driverPc \in {"done", "panic"} => (pingPc \in LoopLeft /\ inflight = {})

\* C6: after a run that folded N >= 1 successful Stats of non-negative
\* duration, minDuration and maxDuration are the minimum and maximum of
\* their durations and the average
\* Summarize prints is their sum divided by N (integer division); the driver
\* that was not interrupted prints exactly these.
C6_MinMaxAverage ==
    (pingPc \in LoopLeft /\ Len(folded) >= 1 /\ AllSuccessful /\ NoneNegative)
        => LET N == Len(folded)
               lo == MinOf(FoldedDurations)
               hi == MaxOf(FoldedDurations)
               avg == SumDurations(folded) \div N
           IN  /\ minDuration = lo
               /\ maxDuration = hi
               /\ ~SummarizeFaults
               /\ SummarizeArgs[6] = avg
               /\ (driverPc = "done" /\ ~interrupted)
                    => summary = <<N, N, 0, lo, hi, avg>>

C6_Witness ==
    /\ driverPc = "done"
    /\ ~interrupted
    /\ Len(folded) >= 2
    /\ AllSuccessful
    /\ NoneNegative
    /\ minDuration < maxDuration
    /\ summary[6] = SumDurations(folded) \div Len(folded)

\* C7: whenever the loop is between two ticks or has been left, total equals
\* the number of probe invocations made and of Stats folded, cancelled
\* probes included.
C7_TotalCountsEveryProbe ==
    pingPc \in LoopLeft \cup {"select"}
        => (total = invoked /\ total = Len(folded))

C7_Witness ==
    /\ pingPc = "returned"
    /\ total = invoked
    /\ total >= 2
    /\ \E i \in 1..Len(folded) : IsCanceled(folded[i].Error)

\* C8: the Stop() calls of the driver and of Ping() close stopC once, never
\* close a closed channel, and every completed Stop() leaves stopC closed.
C8_StopOnce ==
    /\ closes <= 1
    /\ panicked # "close of closed channel"
    /\ (driverPc \in {"summarize", "done", "panic"} \/ pingPc = "returned")
         => (stopC = "closed" /\ closes = 1 /\ stopOnce = "done")

C8_Witness ==
    /\ interrupted
    /\ pingPc = "returned"
    /\ driverPc \in {"summarize", "done"}
    /\ closes = 1
    /\ stopC = "closed"

\* C9: with counter <= 0 the loop is left only after the driver requested
\* Stop(); until then every tick is answered by a probe; once stopC is closed
\* Ping() returns.
C9_UnboundedRun ==
    /\ [](counter <= 0 /\ pingPc \in LoopLeft
            => interrupted /\ stopC = "closed")
    /\ ((counter <= 0 /\ pingPc = "select" /\ timerC = 1)
            ~> (pingPc = "probe" \/ stopC = "closed"))
    /\ ((counter <= 0 /\ stopC = "closed") ~> (pingPc = "returned"))

C9_Witness ==
    /\ counter <= 0
    /\ interrupted
    /\ pingPc = "returned"
    /\ invoked >= 2

\* C10: at most one probe is in flight; a probe starts only after every
\* earlier one was folded and counted; no tick is pending or armed while a
\* probe runs or its Stats is folded; Stats are folded in invocation order.
C10_SequentialProbes ==
    /\ Cardinality(inflight) <= 1
    /\ pingPc = "probe"
         => (inflight = {invoked} /\ Len(folded) = invoked - 1
             /\ total = invoked - 1)
    /\ pingPc \in {"probe", "log", "inc"} => (timerC = 0 /\ ~timerArmed)
    /\ \A i \in 1..Len(folded) : folded[i].id = i

C10_Witness ==
    /\ pingPc = "probe"
    /\ invoked >= 2
    /\ inflight = {invoked}
    /\ Len(folded) = invoked - 1

\* the Stats folded so far whose Error is a cancellation
CanceledFolded == {i \in 1..Len(folded) : IsCanceled(folded[i].Error)}

\* C11: the probe context is cancelled only after stopC was closed or the
\* loop was left; once stopC is closed while a probe is in flight, the
\* watcher goroutine cancels the context.
C11_CancelFollowsStop ==
    /\ [](ctxDone => (stopC = "closed" \/ pingPc \in {"stop", "close", "returned"}))
    /\ ((inflight # {} /\ stopC = "closed")
            ~> (ctxDone /\ watcherPc = "done"))

C11_Witness ==
    /\ pingPc = "probe"
    /\ inflight # {}
    /\ stopC = "closed"
    /\ watcherPc = "done"
    /\ ctxDone

\* C12 as claimed: between two ticks and after the loop, the number of
\* status lines printed equals total.
C12_OneLinePerFold ==
    pingPc \in LoopLeft \cup {"select"} => out = total

\* C12 as amended: every folded Stats whose Error is not a cancellation
\* printed one status line and a cancelled one printed none, so the lines
\* printed are total less the cancelled Stats folded.
C12_OneLinePerUncancelledFold ==
    /\ out = Len(folded) - Cardinality(CanceledFolded)
    /\ pingPc \in LoopLeft \cup {"select"}
         => out = total - Cardinality(CanceledFolded)

C12_Witness ==
    /\ pingPc = "returned"
    /\ total = 2
    /\ out = 1
    /\ folded[1].Error = OtherError
    /\ IsCanceled(folded[2].Error)

\* C13: once a Stats has been folded, minDuration <= maxDuration.
C13_MinBelowMax ==
    Len(folded) >= 1 => minDuration <= maxDuration

C13_Witness ==
    /\ Len(folded) >= 2
    /\ minDuration < maxDuration
    /\ folded[1].Duration > folded[2].Duration

\* C14: the loop is left only when the counter was reached or stopC is
\* closed, never because a probe failed; after a failed Stats was folded,
\* unless one of the two holds (or time has stopped), the next probe is
\* invoked.
C14_FailureKeepsRunning ==
    /\ [](pingPc \in LoopLeft
            => (CounterReached(total, counter) \/ stopC = "closed"))
    /\ [][(pingPc = "inc" /\ stats.Error = OtherError /\ pingPc' # "inc")
            => (pingPc' = "select" \/ CounterReached(total', counter))]_vars
    /\ ((pingPc = "inc" /\ stats.Error = OtherError
           /\ ~CounterReached(total + 1, counter)
           /\ (counter > 0 \/ invoked < MaxProbes))
            ~> (pingPc = "probe" \/ stopC = "closed"))

C14_Witness ==
    /\ pingPc = "probe"
    /\ invoked = 2
    /\ folded[1].Error = OtherError
    /\ stopC = "open"

\* C20: once stopC is closed no probe invocation begins.
C20_NoProbeAfterStop ==
    [][stopC = "closed" => invoked' = invoked]_vars

\* ---- the registry on its own: Register and Load calls --------------------
\* the Register calls of one run
MaxRegs == 3

RegInit ==
    /\ counter = 0
    /\ driverPc = "off"
    /\ FreshPinger
    /\ pinger = EmptyRegistry
    /\ regLog = <<>>
    /\ loaded = NoLoad
    /\ fmtIn = NoError
    /\ fmtOut = "none"
    /\ cfg = NoCfg
    /\ url = NoURL
    /\ protocol = TCP
    /\ cfgErr = "none"

\* ping.go:25-27
RegisterCall ==
    /\ Len(regLog) < MaxRegs
    /\ \E p \in Protocols, f \in Factories :
          /\ pinger' = Register(pinger, p, f)
          /\ regLog' = Append(regLog, [protocol |-> p, factory |-> f])
    /\ UNCHANGED <<loaded, runVars, fmtVars, cfgVars>>

\* ping.go:29-31
LoadCall ==
    /\ \E p \in Protocols :
          loaded' = [protocol |-> p, factory |-> Load(pinger, p),
                     at |-> Len(regLog)]
    /\ UNCHANGED <<pinger, regLog, runVars, fmtVars, cfgVars>>

RegNext ==
    \/ RegisterCall
    \/ LoadCall

RegSpec == RegInit /\ [][RegNext]_vars

\* the Register calls for protocol p among the first n, and the factory of
\* the last of them
RegistrationsOf(p, n) == {i \in 1..n : regLog[i].protocol = p}
MostRecent(p, n) ==
    IF RegistrationsOf(p, n) = {} THEN NilFactory
    ELSE regLog[MaxOf(RegistrationsOf(p, n))].factory

\* C15: Load(p) returns the factory of the most recent Register(p, _) made
\* before it, whatever was registered for other protocols, and the nil
\* factory when there was none.
C15_LoadLastRegistered ==
    loaded # NoLoad
        => loaded.factory = MostRecent(loaded.protocol, loaded.at)

C15_Witness ==
    /\ loaded.protocol = HTTP
    /\ loaded.at = 3
    /\ regLog[1] = [protocol |-> HTTP, factory |-> "tcpFactory"]
    /\ regLog[2] = [protocol |-> HTTP, factory |-> "httpFactory"]
    /\ regLog[3].protocol = TCP
    /\ loaded.factory = "httpFactory"

\* ---- Pinger.formatError (ping.go:214-314) -------------------------------
\* An error is the sequence of its layers, outermost first: wrappers that
\* hold another error, then one root. "url" is *url.Error, "op" *net.OpError,
\* "syscall" *os.SyscallError, "wrap" the error of fmt.Errorf("...%w");
\* "deadline" is context.DeadlineExceeded, "canceled" context.Canceled, "eof"
\* io.EOF, "econnrefused" and "etimedout" the syscall.Errno values, "dns" a
\* *net.DNSError that is neither timeout nor temporary, "plain" errors.New.
\* msg is the text the layer itself adds to Error().
WrapperKinds == {"url", "op", "syscall", "wrap"}
RootKinds == {"deadline", "canceled", "eof", "econnrefused", "etimedout",
              "dns", "plain"}

\* the longest wrapper chain handed to formatError
MaxWrap == 2

\* the texts the layers with a free text carry
InputTexts == {"", "connection refused", "no such host"}

\* the text a layer of this kind adds: syscall.Errno.Error() of ECONNREFUSED
\* is "connection refused"; kinds whose text matches no table entry add ""
FreeText(kind) == kind \in {"wrap", "dns", "plain"}
LayerTexts(kind) ==
    IF FreeText(kind) THEN InputTexts
    ELSE IF kind = "econnrefused" THEN {"connection refused"}
    ELSE {""}
Layers(kinds) ==
    UNION {{[kind |-> k, msg |-> m] : m \in LayerTexts(k)} : k \in kinds}
ErrorValues ==
    UNION {{[i \in 1..(n + 1) |-> IF i <= n THEN w[i] ELSE r] :
              w \in [1..n -> Layers(WrapperKinds)], r \in Layers(RootKinds)} :
           n \in 0..MaxWrap}

\* the kind of an error value; "" for no error (a nil interface)
KindOf(e) == IF e = <<>> THEN "" ELSE e[1].kind

\* the types with a Timeout() method, and with Timeout() and Temporary():
\* the second are the net.Error values (*os.SyscallError has no Temporary)
HasTimeoutMethod(e) ==
    KindOf(e) \in {"url", "op", "syscall", "deadline", "econnrefused",
                   "etimedout", "dns"}
IsNetError(e) ==
    KindOf(e) \in {"url", "op", "deadline", "econnrefused", "etimedout", "dns"}

\* err.Timeout(): the wrappers ask the error they hold, *net.OpError asking
\* the error inside a *os.SyscallError it holds
RECURSIVE TimeoutOf(_)
TimeoutOf(e) ==
    CASE KindOf(e) \in {"deadline", "etimedout"} -> TRUE
      [] KindOf(e) \in {"url", "syscall"} ->
            HasTimeoutMethod(Tail(e)) /\ TimeoutOf(Tail(e))
      [] KindOf(e) = "op" ->
            LET held == IF KindOf(Tail(e)) = "syscall" THEN Tail(Tail(e))
                        ELSE Tail(e)
            IN  HasTimeoutMethod(held) /\ TimeoutOf(held)
      [] OTHER -> FALSE

\* err.Temporary()
RECURSIVE TemporaryOf(_)
TemporaryOf(e) ==
    CASE KindOf(e) \in {"deadline", "etimedout"} -> TRUE
      [] KindOf(e) = "url" -> IsNetError(Tail(e)) /\ TemporaryOf(Tail(e))
      [] KindOf(e) = "op" ->
            LET held == IF KindOf(Tail(e)) = "syscall" THEN Tail(Tail(e))
                        ELSE Tail(e)
            IN  IsNetError(held) /\ TemporaryOf(held)
      [] OTHER -> FALSE

\* errors.Is(err, context.DeadlineExceeded): every wrapper has Unwrap
IsDeadline(e) == \E i \in 1..Len(e) : e[i].kind = "deadline"

\* strings.Contains(text, phrase) for a layer's text, and for err.Error(),
\* which holds the text of every layer
TextContains(text, phrase) ==
    \/ text = phrase
    \/ text = "was forcibly closed by the remote host"
         /\ phrase = "forcibly closed"
ErrorContains(e, phrase) ==
    \E i \in 1..Len(e) : TextContains(e[i].msg, phrase)

\* ping.go:270-311: the phrases looked for, in order, and their categories
SubstringTable == <<
    <<"forcibly closed", "forcibly-closed">>,
    <<"because it doesn't contain any IP SANs", "certificate-unverifiable">>,
    <<"no such host", "invalid-domain">>,
    <<"getaddrinfow", "dns-error">>,
    <<"closed network connection", "closed-connection">>,
    <<"connection refused", "refused">>,
    <<"server gave HTTP response to HTTPS client", "needs-https">>,
    <<"x509: certificate is not valid", "certificate-invalid">>,
    <<"x509: certificate is valid", "certificate-mismatch">>,
    <<"actively refused it", "cannot-connect">>,
    <<"was forcibly closed by the remote host", "forced-closed">> >>

\* ping.go:270-313: the first entry whose phrase err.Error() contains, or
\* err.Error() itself ("raw")
BySubstring(e) ==
    LET hits == {i \in 1..Len(SubstringTable) :
                    ErrorContains(e, SubstringTable[i][1])}
    IN  IF hits = {} THEN "raw"
        ELSE SubstringTable[CHOOSE i \in hits : \A j \in hits : i <= j][2]

\* ping.go:238-313: what follows the type switch
AfterSwitch(e) ==
    IF e = <<[kind |-> "eof", msg |-> ""]>> THEN "connection-closed"
    ELSE IF IsNetError(e) /\ TimeoutOf(e) THEN "network-timeout"
    ELSE IF IsNetError(e) /\ TemporaryOf(e) THEN "network-temporary"
    ELSE IF KindOf(e) = "op" /\ KindOf(Tail(e)) = "dns" THEN "dns-error"
    ELSE IF KindOf(e) = "op" /\ KindOf(Tail(e)) = "syscall"
              /\ KindOf(Tail(Tail(e))) = "econnrefused"
         THEN "refused-by-server"
    ELSE IF KindOf(e) = "op" /\ KindOf(Tail(e)) = "syscall"
              /\ KindOf(Tail(Tail(e))) = "etimedout"
         THEN "network-timeout"
    ELSE BySubstring(e)

\* ping.go:214-236: the type switch, then the rest
RECURSIVE formatError(_)
formatError(e) ==
    CASE KindOf(e) = "url" ->
            IF TimeoutOf(e) THEN "timeout" ELSE formatError(Tail(e))
      [] KindOf(e) # "url" /\ IsNetError(e) ->
            IF TimeoutOf(e) THEN "timeout"
            ELSE IF KindOf(e) = "op" /\ KindOf(Tail(e)) = "syscall"
                 THEN formatError(Tail(Tail(e)))
                 ELSE AfterSwitch(e)
      [] OTHER ->
            IF IsDeadline(e) THEN "timeout" ELSE AfterSwitch(e)

\* ---- formatError on its own ----------------------------------------------
FmtInit ==
    /\ counter = 0
    /\ driverPc = "off"
    /\ FreshPinger
    /\ pinger = InitRegistry
    /\ regLog = <<>>
    /\ loaded = NoLoad
    /\ fmtIn \in ErrorValues
    /\ fmtOut = "none"
    /\ cfg = NoCfg
    /\ url = NoURL
    /\ protocol = TCP
    /\ cfgErr = "none"

FormatCall ==
    /\ fmtOut = "none"
    /\ fmtOut' = formatError(fmtIn)
    /\ UNCHANGED <<fmtIn, runVars, regVars, cfgVars>>

FmtNext == FormatCall

FmtSpec == FmtInit /\ [][FmtNext]_vars

\* the kinds of the layers of the error handed to formatError
KindsIn == [i \in 1..Len(fmtIn) |-> fmtIn[i].kind]

\* C16: an error with context.DeadlineExceeded under two wrappers of any
\* kinds is put in the timed-out category, whatever its text contains.
C16_DeadlineTwoDeep ==
    (fmtOut # "none" /\ Len(fmtIn) = 3 /\ fmtIn[3].kind = "deadline")
        => fmtOut = "timeout"

\* C17: a *net.OpError holding a *os.SyscallError holding ECONNREFUSED is
\* put in the category of the structured branch of ping.go:261-262.
C17_RefusedByStructure ==
    (fmtOut # "none" /\ KindsIn = <<"op", "syscall", "econnrefused">>)
        => fmtOut = "refused-by-server"

\* ---- rootCmd.Run before the Pinger is made (part_000:49-132) ------------
\* counter of the runs that start from the command line
RunCounter == 1

\* The command line: the --version flag, the number of arguments, the
\* address args[0] (its scheme, "" when it has no "://", the port written in
\* it, and whether url.Parse accepts it), the port argument args[1], whether
\* --timeout and --interval parse, and whether the factory called with the
\* flags given (--proxy, --http-method) returns a Ping or an error.
Addresses ==
    [scheme : {"", "tcp", "http", "https", "ftp"}, port : {"", "8080"},
     ok : BOOLEAN]
CmdLines ==
    {c \in [given : {TRUE}, showVersion : BOOLEAN, nargs : 0..3,
            addr : Addresses, portArg : {"", "9090", "abc"},
            timeoutOK : BOOLEAN, intervalOK : BOOLEAN, factoryOK : BOOLEAN] :
        (c.portArg = "") <=> (c.nargs < 2)}

\* strconv.Atoi on the port texts of the model: the number, or an error
AtoiOK(text) == text \in {"80", "443", "8080", "9090"}
Atoi(text) ==
    CASE text = "80" -> 80
      [] text = "443" -> 443
      [] text = "8080" -> 8080
      [] text = "9090" -> 9090

\* fmt.Sprintf("%d", port), as part_000:83 writes the port into url.Host
Itoa(n) ==
    CASE n = 80 -> "80"
      [] n = 443 -> "443"
      [] n = 8080 -> "8080"
      [] n = 9090 -> "9090"

\* ParseAddress (utils.go:48-54): without "://" the address is parsed as
\* "tcp://" + addr
ParseAddress(addr) ==
    [Scheme |-> IF addr.scheme = "" THEN "tcp" ELSE addr.scheme,
     Port |-> addr.port]

\* part_000:69-77: the text handed to strconv.Atoi
DefaultPort_UrlWins(u, c) ==
    IF u.Port # "" THEN u.Port
    ELSE IF c.nargs > 1 THEN c.portArg
    ELSE IF u.Scheme = "https" THEN "443"
    ELSE "80"
DefaultPort(u, c) ==
    IF c.nargs > 1 THEN c.portArg
    ELSE IF u.Port # "" THEN u.Port
    ELSE IF u.Scheme = "https" THEN "443"
    ELSE "80"

\* NewProtocol (ping.go:58-68)
NewProtocolOK(scheme) == scheme \in {"tcp", "http", "https"}
NewProtocol(scheme) ==
    CASE scheme = "tcp" -> TCP
      [] scheme = "http" -> HTTP
      [] scheme = "https" -> HTTPS

\* the factories that can return an error: those of HTTP and HTTPS
\* (fixProxy, http.New); the one of TCP parses the port Run has just written
FactoryFails(f, c) == f \in {"httpFactory", "httpsFactory"} /\ ~c.factoryOK

\* rootCmd.Run returns before the Pinger is made
Return(why) ==
    /\ cfgErr' = why
    /\ driverPc' = "return"

\* part_000:50-61
RunArgs ==
    /\ driverPc = "run"
    /\ IF cfg.showVersion THEN Return("version")
       ELSE IF cfg.nargs = 0 THEN Return("usage")
       ELSE IF cfg.nargs > 2 THEN Return("arguments")
       ELSE driverPc' = "parse" /\ cfgErr' = cfgErr
    /\ UNCHANGED <<cfg, url, protocol, regVars, fmtVars, pingerVars, accVars,
                   out, sigs, summary, panicked, histVars>>

\* part_000:63-67
RunParse ==
    /\ driverPc = "parse"
    /\ IF ~cfg.addr.ok
       THEN Return("address") /\ url' = url
       ELSE /\ url' = ParseAddress(cfg.addr)
            /\ driverPc' = "port"
            /\ cfgErr' = cfgErr
    /\ UNCHANGED <<cfg, protocol, regVars, fmtVars, pingerVars, accVars,
                   out, sigs, summary, panicked, histVars>>

\* part_000:69-83
RunPort ==
    /\ driverPc = "port"
    /\ LET defaultPort == DefaultPort(url, cfg)
       IN  IF ~AtoiOK(defaultPort)
           THEN Return("port") /\ url' = url
           ELSE /\ url' = [url EXCEPT !.Port = Itoa(Atoi(defaultPort))]
                /\ driverPc' = "durations"
                /\ cfgErr' = cfgErr
    /\ UNCHANGED <<cfg, protocol, regVars, fmtVars, pingerVars, accVars,
                   out, sigs, summary, panicked, histVars>>

\* part_000:85-97
RunDurations_NoReturn ==
    /\ driverPc = "durations"
    /\ cfgErr' = IF ~cfg.timeoutOK THEN "timeout"
                 ELSE IF ~cfg.intervalOK THEN "interval"
                 ELSE cfgErr
    /\ driverPc' = "protocol"
    /\ UNCHANGED <<cfg, url, protocol, regVars, fmtVars, pingerVars, accVars,
                   out, sigs, summary, panicked, histVars>>

RunDurations ==
    /\ driverPc = "durations"
    /\ IF ~cfg.timeoutOK THEN Return("timeout")
       ELSE IF ~cfg.intervalOK THEN Return("interval")
       ELSE driverPc' = "protocol" /\ cfgErr' = cfgErr
    /\ UNCHANGED <<cfg, url, protocol, regVars, fmtVars, pingerVars, accVars,
                   out, sigs, summary, panicked, histVars>>

\* part_000:99-104
RunProtocol ==
    /\ driverPc = "protocol"
    /\ IF ~NewProtocolOK(url.Scheme)
       THEN Return("protocol") /\ protocol' = protocol
       ELSE /\ protocol' = NewProtocol(url.Scheme)
            /\ driverPc' = "factory"
            /\ cfgErr' = cfgErr
    /\ UNCHANGED <<cfg, url, regVars, fmtVars, pingerVars, accVars,
                   out, sigs, summary, panicked, histVars>>

\* part_000:124-132: the factory is loaded and called unchecked, which
\* panics when it is nil; with the Ping it returns the Pinger is made
RunFactory ==
    /\ driverPc = "factory"
    /\ LET pingFactory == Load(pinger, protocol)
       IN  /\ loaded' = [protocol |-> protocol, factory |-> pingFactory,
                         at |-> Len(regLog)]
           /\ IF pingFactory = NilFactory
              THEN /\ panicked' = "nil pointer dereference"
                   /\ driverPc' = "panic"
                   /\ cfgErr' = cfgErr
              ELSE IF FactoryFails(pingFactory, cfg)
              THEN Return("factory") /\ panicked' = panicked
              ELSE /\ driverPc' = "new"
                   /\ cfgErr' = cfgErr
                   /\ panicked' = panicked
    /\ UNCHANGED <<cfg, url, protocol, pinger, regLog, fmtVars, pingerVars,
                   accVars, out, sigs, summary, histVars>>

CmdInit ==
    /\ cfg \in CmdLines
    /\ counter = RunCounter
    /\ driverPc = "run"
    /\ FreshPinger
    /\ AfterInit
    /\ url = NoURL
    /\ protocol = TCP
    /\ cfgErr = "none"

CmdNext ==
    \/ RunArgs
    \/ RunParse
    \/ RunPort
    \/ RunDurations
    \/ RunProtocol
    \/ RunFactory
    \/ Next

CmdSpec == CmdInit /\ [][CmdNext]_vars

\* C18: when rootCmd.Run has returned for a configuration error, no Pinger
\* was started, no probe was invoked, nothing was summarized, and it stays so.
C18_ConfigErrorBeforeLoop ==
    cfgErr # "none"
        => /\ driverPc = "return"
           /\ pingPc = "idle"
           /\ watcherPc = "none"
           /\ invoked = 0
           /\ out = 0
           /\ summary = <<>>
           /\ panicked = "none"

C18_Witness ==
    /\ cfgErr = "factory"
    /\ driverPc = "return"
    /\ url.Port = "8080"
    /\ protocol = HTTPS
    /\ pingPc = "idle"

\* the port the claim names for a command line
PortByPrecedence(c) ==
    IF c.nargs > 1 THEN c.portArg
    ELSE IF c.addr.port # "" THEN c.addr.port
    ELSE IF c.addr.scheme = "https" THEN "443"
    ELSE "80"

\* C19: the port of the url the driver probes is the port argument if given,
\* otherwise the port of the address if it has one, otherwise 443 for https
\* and 80 for tcp and http.
C19_PortPrecedence ==
    driverPc \notin {"run", "parse", "port", "return"}
        => (url.Port = PortByPrecedence(cfg) /\ AtoiOK(url.Port))

C19_Witness ==
    /\ invoked >= 1
    /\ cfg.addr.scheme = "https"
    /\ cfg.addr.port = ""
    /\ cfg.nargs = 1
    /\ url.Port = "443"

\* ---- Done() and the end of Ping() ---------------------------------------
\* the positions of Ping() inside its loop, after the defers are registered
Running == {"select", "probe", "log", "inc"}

\* the driver has called pinger.Stop() and its close(p.stopC) has run
DriverStopped == driverPc \in {"summarize", "done", "panic"}

\* C21: when Ping() has returned stopC is closed, on the path of the counter
\* and on the path of an external Stop alike; once the loop is left the
\* driver leaves its select and the watcher goroutine ends; and stopC is
\* closed while the loop runs only if the driver, interrupted, called Stop().
C21_DoneClosedOnExit ==
    /\ [](pingPc = "returned" => stopC = "closed")
    /\ ((pingPc \in LoopLeft) ~> (driverPc # "wait"))
    /\ ((pingPc \in LoopLeft) ~> (watcherPc = "done"))
    /\ []((stopC = "closed" /\ pingPc \in Running)
            => (interrupted /\ DriverStopped))

\* the counter is exhausted, nobody interrupted: the deferred Stop() of
\* Ping() closed stopC, the driver came out of its select by Done() and the
\* watcher has ended
C21_Witness ==
    /\ counter > 0
    /\ total = counter
    /\ pingPc = "returned"
    /\ ~interrupted
    /\ closes = 1
    /\ stopC = "closed"
    /\ driverPc = "done"
    /\ watcherPc = "done"

\* ---- the factory the driver loads ---------------------------------------
\* C22: every protocol NewProtocol returns without error has a factory in
\* the registry from init() on, so the factory rootCmd.Run loads for its
\* protocol is never the nil Factory and its unchecked call never panics.
C22_LoadedFactoryPresent ==
    /\ \A scheme \in {a.scheme : a \in Addresses} :
           NewProtocolOK(scheme)
               => Load(pinger, NewProtocol(scheme)) # NilFactory
    /\ loaded # NoLoad
           => /\ loaded.protocol = protocol
              /\ loaded.factory # NilFactory
              /\ panicked # "nil pointer dereference"

\* an https address: the factory registered for HTTPS was loaded and called,
\* and the Pinger it made has probed
C22_Witness ==
    /\ cfg.addr.scheme = "https"
    /\ loaded.protocol = HTTPS
    /\ loaded.factory = "httpsFactory"
    /\ cfgErr = "none"
    /\ invoked >= 1

====
